---- MODULE Spec2Model ----
(***************************************************************************)
(* Frame scanner (wyze-parser/src/main.rs, find_msg), payload codecs and   *)
(* their dispatch (wyze-parser/src/packets.rs), the host-side frame writer *)
(* and receive path (wyze/src/hub.rs, send and raw_read) and the frame     *)
(* reader of the hub (wyze/src/magic.rs, parse) of the Wyze bridge         *)
(* protocol.                                                               *)
(*                                                                         *)
(* Bytes are integers 0..255, byte strings and text are sequences of       *)
(* bytes.  A nom result is a record whose kind is "Ok", "Error"            *)
(* (recoverable, insufficient input), "Failure" (invalid frame) or         *)
(* "Panic" (the Rust process unwinds instead of returning).                *)
(***************************************************************************)
EXTENDS Integers, Sequences, FiniteSets, TLC

VARIABLES
    buf,      \* the caller-owned buffer the scanner is applied to
    rest,     \* bytes of the stream the transport has not delivered yet
    delivered,\* number of later chunks appended, of transfers submitted again
    scanned,  \* the input of the last find_msg call
    res,      \* the result of the last find_msg call
    frames,   \* the packets decoded so far, in order
    orig,     \* the stream as it was written by the peer
    cpos,     \* offset of the byte damaged in transit, 0 if none
    val,      \* a packet value handed to the codec
    payload,  \* its packed payload
    decoded,  \* the result of parsing the payload back
    arg_id,   \* the identifier handed to PacketPayload::parse
    arg_ack,  \* the ack flag handed to PacketPayload::parse
    written,  \* the buffers the hub handed to write_all, in order
    reads,    \* number of raw_read calls that returned
    step,     \* the statement of init the hub is at
    calls,    \* number of find_msg calls the driver has made
    pc        \* the caller's position

vars ==
    <<buf, rest, delivered, scanned, res, frames, orig, cpos, val, payload, decoded,
      arg_id, arg_ack, written, reads, step, calls, pc>>

----------------------------------------------------------------------------
(* Bounds of the explored input space *)

MaxPayload == 2

MaxNoise == 1

MaxTrail == 1

MaxFrames == 2

MaxText == 2

----------------------------------------------------------------------------
(* Program constants *)

SYNC == 67

ASYNC == 83

ACK_SENTINEL == 255

CHKSUM_SEED == 255

SPACE == 32

Byte == 0 .. 255

U8 == 256

U16 == 65536

----------------------------------------------------------------------------
(* Sequence helpers (slices of &[u8]) *)

Drop(s, n) == IF n >= Len(s) THEN << >> ELSE SubSeq(s, n + 1, Len(s))

Take(s, n) == IF n <= 0 THEN << >> ELSE SubSeq(s, 1, n)

RECURSIVE SeqsUpTo(_, _)
SeqsUpTo(S, n) ==
    IF n = 0 THEN { << >> }
    ELSE LET shorter == SeqsUpTo(S, n - 1)
         IN  shorter \cup { Append(s, b) : s \in shorter, b \in S }

RECURSIVE SumBytes(_, _, _)
SumBytes(s, lo, hi) ==
    IF lo > hi THEN 0 ELSE s[lo] + SumBytes(s, lo + 1, hi)

----------------------------------------------------------------------------
(* Packet values: the variant (kind), its sub-shape (role) and the fields   *)
(* of the sub-shape.  num holds the single byte field (value / count /      *)
(* completion) as a sequence of length 0 or 1; strs holds the text fields   *)
(* in declaration order, each a sequence of bytes.                          *)

Pkt(k, r, n, s) == [kind |-> k, role |-> r, num |-> n, strs |-> s]

NoPacket == Pkt("None", "None", << >>, << >>)

POk(p) == [tag |-> "Ok", packet |-> p]

PErr == [tag |-> "Err", packet |-> NoPacket]

PPanic == [tag |-> "Panic", packet |-> NoPacket]

MessageType == {"Command", "Response", "Ack"}

----------------------------------------------------------------------------
(* std::str::from_utf8: well-formed UTF-8 (Unicode table 3-7) *)

Cont(s, i) == i <= Len(s) /\ s[i] >= 128 /\ s[i] <= 191

InRange(s, i, lo, hi) == i <= Len(s) /\ s[i] >= lo /\ s[i] <= hi

RECURSIVE Utf8From(_, _)
Utf8From(s, i) ==
    IF i > Len(s) THEN TRUE
    ELSE LET b == s[i] IN
         IF b <= 127 THEN Utf8From(s, i + 1)
         ELSE IF b >= 194 /\ b <= 223
              THEN Cont(s, i + 1) /\ Utf8From(s, i + 2)
         ELSE IF b = 224
              THEN InRange(s, i + 1, 160, 191) /\ Cont(s, i + 2) /\ Utf8From(s, i + 3)
         ELSE IF (b >= 225 /\ b <= 236) \/ b = 238 \/ b = 239
              THEN Cont(s, i + 1) /\ Cont(s, i + 2) /\ Utf8From(s, i + 3)
         ELSE IF b = 237
              THEN InRange(s, i + 1, 128, 159) /\ Cont(s, i + 2) /\ Utf8From(s, i + 3)
         ELSE IF b = 240
              THEN InRange(s, i + 1, 144, 191) /\ Cont(s, i + 2) /\ Cont(s, i + 3)
                   /\ Utf8From(s, i + 4)
         ELSE IF b >= 241 /\ b <= 243
              THEN Cont(s, i + 1) /\ Cont(s, i + 2) /\ Cont(s, i + 3)
                   /\ Utf8From(s, i + 4)
         ELSE IF b = 244
              THEN InRange(s, i + 1, 128, 143) /\ Cont(s, i + 2) /\ Cont(s, i + 3)
                   /\ Utf8From(s, i + 4)
         ELSE FALSE

from_utf8(input) == Utf8From(input, 1)

(* str::split(" "): the pieces between single spaces; n spaces give n + 1   *)
(* pieces, empty pieces included.                                           *)
RECURSIVE SplitFrom(_, _, _)
SplitFrom(s, i, cur) ==
    IF i > Len(s) THEN << cur >>
    ELSE IF s[i] = SPACE THEN << cur >> \o SplitFrom(s, i + 1, << >>)
    ELSE SplitFrom(s, i + 1, Append(cur, s[i]))

(* split_whitespace: the empty pieces dropped *)
split_nonempty(s) == SelectSeq(SplitFrom(s, 1, << >>), LAMBDA piece : piece # << >>)

split(s) == SplitFrom(s, 1, << >>)

----------------------------------------------------------------------------
(* Packet kinds: identifiers, parse, pack, message_type (packets.rs) *)

InquiryPacket_CMD_ID == 39

InquiryPacket_RSP_ID == 40

MacPacket_CMD_ID == 4

MacPacket_RSP_ID == 5

VersionPacket_CMD_ID == 22

VersionPacket_RSP_ID == 23

SensorCountPacket_CMD_ID == 46

SensorCountPacket_RSP_ID == 47

SensorListPacket_CMD_ID == 48

SensorListPacket_RSP_ID == 49

AuthPacket_CMD_ID == 20

AuthPacket_RSP_ID == 21

InquiryPacket_parse(input, msg_type) ==
    CASE msg_type = "Command" -> POk(Pkt("Inquiry", "Command", << >>, << >>))
      [] msg_type = "Response" ->
            IF Len(input) = 0 THEN PErr
            ELSE POk(Pkt("Inquiry", "Response", << input[1] >>, << >>))
      [] msg_type = "Ack" -> POk(Pkt("Inquiry", "Ack", << >>, << >>))

InquiryPacket_pack(v) ==
    CASE v.role = "Command" -> << >>
      [] v.role = "Response" -> << v.num[1] >>
      [] v.role = "Ack" -> << >>

MacPacket_parse(input, msg_type) ==
    CASE msg_type = "Command" -> POk(Pkt("Mac", "Command", << >>, << >>))
      [] msg_type = "Response" ->
            IF ~from_utf8(input) THEN PErr
            ELSE POk(Pkt("Mac", "Response", << >>, << input >>))
      [] msg_type = "Ack" -> POk(Pkt("Mac", "Ack", << >>, << >>))

MacPacket_pack(v) ==
    CASE v.role = "Command" -> << >>
      [] v.role = "Response" -> v.strs[1]
      [] v.role = "Ack" -> << >>

VersionPacket_parse(input, msg_type) ==
    CASE msg_type = "Command" -> POk(Pkt("Version", "Command", << >>, << >>))
      [] msg_type = "Response" ->
            IF ~from_utf8(input) THEN PErr
            ELSE LET mac == split(input) IN
                 IF Len(mac) < 4 THEN PPanic
                 ELSE POk(Pkt("Version", "Response", << >>,
                              << mac[1], mac[2], mac[3], mac[4] >>))
      [] msg_type = "Ack" -> POk(Pkt("Version", "Ack", << >>, << >>))

VersionPacket_pack(v) ==
    CASE v.role = "Command" -> << >>
      [] v.role = "Response" -> << >>
      [] v.role = "Ack" -> << >>

SensorCountPacket_parse(input, msg_type) ==
    CASE msg_type = "Command" -> POk(Pkt("SensorCount", "Command", << >>, << >>))
      [] msg_type = "Response" ->
            IF Len(input) = 0 THEN PErr
            ELSE POk(Pkt("SensorCount", "Response", << input[1] >>, << >>))
      [] msg_type = "Ack" -> POk(Pkt("SensorCount", "Ack", << >>, << >>))

SensorCountPacket_pack(v) ==
    CASE v.role = "Command" -> << >>
      [] v.role = "Response" -> << v.num[1] >>
      [] v.role = "Ack" -> << >>

SensorListPacket_parse(input, msg_type) ==
    CASE msg_type = "Command" ->
            IF Len(input) = 0 THEN PErr
            ELSE POk(Pkt("SensorList", "Command", << input[1] >>, << >>))
      [] msg_type = "Response" ->
            IF ~from_utf8(input) THEN PErr
            ELSE POk(Pkt("SensorList", "Response", << >>, << input >>))
      [] msg_type = "Ack" -> POk(Pkt("SensorList", "Ack", << >>, << >>))

SensorListPacket_pack(v) ==
    CASE v.role = "Command" -> << v.num[1] >>
      [] v.role = "Response" -> v.strs[1]
      [] v.role = "Ack" -> << >>

AuthPacket_parse(input, msg_type) ==
    CASE msg_type = "Command" ->
            IF Len(input) = 0 THEN PErr
            ELSE POk(Pkt("Auth", "Command", << input[1] >>, << >>))
      [] msg_type = "Response" -> POk(Pkt("Auth", "Response", << >>, << >>))
      [] msg_type = "Ack" -> POk(Pkt("Auth", "Ack", << >>, << >>))

AuthPacket_pack(v) ==
    CASE v.role = "Command" -> << v.num[1] >>
      [] v.role = "Response" -> << >>
      [] v.role = "Ack" -> << >>

message_type(v) == v.role

(* The Packet trait's parse and pack, dispatched on the variant *)
Packet_parse(kind, input, msg_type) ==
    CASE kind = "Inquiry" -> InquiryPacket_parse(input, msg_type)
      [] kind = "Mac" -> MacPacket_parse(input, msg_type)
      [] kind = "Version" -> VersionPacket_parse(input, msg_type)
      [] kind = "SensorCount" -> SensorCountPacket_parse(input, msg_type)
      [] kind = "SensorList" -> SensorListPacket_parse(input, msg_type)
      [] kind = "Auth" -> AuthPacket_parse(input, msg_type)

Packet_pack(v) ==
    CASE v.kind = "Inquiry" -> InquiryPacket_pack(v)
      [] v.kind = "Mac" -> MacPacket_pack(v)
      [] v.kind = "Version" -> VersionPacket_pack(v)
      [] v.kind = "SensorCount" -> SensorCountPacket_pack(v)
      [] v.kind = "SensorList" -> SensorListPacket_pack(v)
      [] v.kind = "Auth" -> AuthPacket_pack(v)

AckOr_ignored(ack, r) == r

(* The body of an arm: the Ack sub-shape if ack, else the role of the arm *)
AckOr(ack, r) == IF ack THEN "Ack" ELSE r

PacketPayload_parse_all_commands(input, id, ack) ==
    LET role == AckOr(ack, "Command") IN
    CASE id \in { InquiryPacket_CMD_ID, InquiryPacket_RSP_ID } ->
            InquiryPacket_parse(input, role)
      [] id \in { MacPacket_CMD_ID, MacPacket_RSP_ID } -> MacPacket_parse(input, role)
      [] id \in { VersionPacket_CMD_ID, VersionPacket_RSP_ID } ->
            VersionPacket_parse(input, role)
      [] id \in { SensorCountPacket_CMD_ID, SensorCountPacket_RSP_ID } ->
            SensorCountPacket_parse(input, role)
      [] id \in { SensorListPacket_CMD_ID, SensorListPacket_RSP_ID } ->
            SensorListPacket_parse(input, role)
      [] id \in { AuthPacket_CMD_ID, AuthPacket_RSP_ID } -> AuthPacket_parse(input, role)
      [] OTHER -> PErr

(* PacketPayload::parse: the match generated by PacketPayloadBuilder, its   *)
(* arms in the order the kinds are listed.                                  *)
PacketPayload_parse(input, id, ack) ==
    LET role(r) == AckOr(ack, r) IN
    CASE id = InquiryPacket_CMD_ID -> InquiryPacket_parse(input, role("Command"))
      [] id = InquiryPacket_RSP_ID -> InquiryPacket_parse(input, role("Response"))
      [] id = MacPacket_CMD_ID -> MacPacket_parse(input, role("Command"))
      [] id = MacPacket_RSP_ID -> MacPacket_parse(input, role("Response"))
      [] id = VersionPacket_CMD_ID -> VersionPacket_parse(input, role("Command"))
      [] id = VersionPacket_RSP_ID -> VersionPacket_parse(input, role("Response"))
      [] id = SensorCountPacket_CMD_ID -> SensorCountPacket_parse(input, role("Command"))
      [] id = SensorCountPacket_RSP_ID -> SensorCountPacket_parse(input, role("Response"))
      [] id = SensorListPacket_CMD_ID -> SensorListPacket_parse(input, role("Command"))
      [] id = SensorListPacket_RSP_ID -> SensorListPacket_parse(input, role("Response"))
      [] id = AuthPacket_CMD_ID -> AuthPacket_parse(input, role("Command"))
      [] id = AuthPacket_RSP_ID -> AuthPacket_parse(input, role("Response"))
      [] OTHER -> PErr

(* PacketHandle::parse: the payload with the frame's sync type; Err and a   *)
(* panic of the payload decoder pass through.                               *)
PacketHandle_parse(input, id, ack, sync_type) ==
    LET p == PacketPayload_parse(input, id, ack) IN
    [tag |-> p.tag, payload |-> p.packet, sync_type |-> sync_type]

----------------------------------------------------------------------------
(* WyzeHub::send (hub.rs): the frame writer of the host side *)

BRIDGE_MARK == << 85, 170 >>

HOST_MARK == << 170, 85 >>

(* The checksum fold of send: every byte written so far, marker included,   *)
(* added into a u16 that starts at 0.                                       *)
RECURSIVE Fold16(_, _, _)
Fold16(write, i, acc) ==
    IF i > Len(write) THEN acc
    ELSE Fold16(write, i + 1, (acc + write[i]) % U16)

ck_bytes(ck) == << (ck \div U8) % U8, ck % U8 >>

(* send: marker, type, length = data.len() + 2, data (id then payload),    *)
(* checksum.  packet_type is the type byte, data the result of to_bytes.    *)
send(packet_type, data) ==
    LET write == HOST_MARK \o << packet_type >> \o << (Len(data) + 2) % U8 >> \o data
    IN  write \o ck_bytes(Fold16(write, 1, 0))

----------------------------------------------------------------------------
(* The packets the hub sends (wyze/src/packet.rs): the sync type and the    *)
(* identifier of the Packet impl and the field of the struct, a sequence of *)
(* length 0 or 1.                                                           *)
HubPacket(name, packet_type, packet_id, field) ==
    [name |-> name, packet_type |-> packet_type, packet_id |-> packet_id,
     field |-> field]

InquiryPacket == HubPacket("Inquiry", "Sync", 39, << >>)

GetMacPacket == HubPacket("GetMac", "Sync", 4, << >>)

GetVerPacket == HubPacket("GetVer", "Async", 22, << >>)

GetSensorCountPacket == HubPacket("GetSensorCount", "Async", 46, << >>)

GetSensorListPacket(count) == HubPacket("GetSensorList", "Async", 48, << count >>)

AuthPacket(completion) == HubPacket("Auth", "Async", 20, << completion >>)

AuthPacket_create_done == AuthPacket(255)

AckPacket(for_packet_id) == HubPacket("Ack", "Async", 255, << for_packet_id >>)

get_packet_type(packet) == packet.packet_type

get_packet_id(packet) == packet.packet_id

(* Every packet packed the way AckPacket is: the field first *)
to_bytes_field_first(packet) == packet.field \o << get_packet_id(packet) >>

(* Packable::to_bytes: the identifier, then the field; AckPacket puts the   *)
(* acknowledged identifier first and its own identifier after it.           *)
to_bytes(packet) ==
    IF packet.name = "Ack" THEN packet.field \o << get_packet_id(packet) >>
    ELSE << get_packet_id(packet) >> \o packet.field

(* The type byte send pushes for the packet's sync type *)
type_byte(packet_type) == IF packet_type = "Sync" THEN 67 ELSE 83

(* The buffer send hands to write_all for a packet *)
WyzeHub_send(packet) == send(type_byte(get_packet_type(packet)), to_bytes(packet))

----------------------------------------------------------------------------
(* find_msg (wyze-parser/src/main.rs) *)

IsMark_bridge_only(input, i) ==
    /\ i + 1 <= Len(input)
    /\ << input[i], input[i + 1] >> = BRIDGE_MARK

IsMark(input, i) ==
    /\ i + 1 <= Len(input)
    /\ \/ << input[i], input[i + 1] >> = BRIDGE_MARK
       \/ << input[i], input[i + 1] >> = HOST_MARK

(* many_till(take(1), alt(tag(55 AA), tag(AA 55))): at each position the    *)
(* terminator is tried first, then one byte is dropped; 0 when the input    *)
(* ends before a marker (take(1) fails on the empty rest).                  *)
RECURSIVE many_till(_, _)
many_till(input, i) ==
    IF IsMark(input, i) THEN i
    ELSE IF i > Len(input) THEN 0
    ELSE many_till(input, i + 1)

PacketSource(preamble) == IF preamble[1] = 85 THEN "Bridge" ELSE "Host"

(* PacketSyncType::from_u8 (derive FromPrimitive) *)
from_u8(b) ==
    IF b = ASYNC THEN "Async" ELSE IF b = SYNC THEN "Sync" ELSE "None"

Resolve_keeps_length(length_or_id, ack_or_id) ==
    IF ack_or_id = ACK_SENTINEL
    THEN [ack |-> TRUE, id |-> length_or_id, length |-> length_or_id]
    ELSE [ack |-> FALSE, id |-> ack_or_id, length |-> length_or_id]

(* The overloaded field pair *)
Resolve(length_or_id, ack_or_id) ==
    IF ack_or_id = ACK_SENTINEL
    THEN [ack |-> TRUE, id |-> length_or_id, length |-> 3]
    ELSE [ack |-> FALSE, id |-> ack_or_id, length |-> length_or_id]

LengthRejected_below_one(length) == length < 1

(* length < 2 is rejected *)
LengthRejected(length) == length < 2

(* The loop over input[0 .. length), input being the slice that starts at   *)
(* the type byte, on a u16 that starts at 0x00FF.                           *)
RECURSIVE chksum_loop(_, _, _, _)
chksum_loop(input, i, length, acc) ==
    IF i >= length THEN acc
    ELSE chksum_loop(input, i + 1, length, (acc + input[i + 1]) % U16)

chksum_calc_unseeded(input, length) == chksum_loop(input, 0, length, 0)

chksum_calc(input, length) == chksum_loop(input, 0, length, CHKSUM_SEED)

payload_len_minus_two(length) == (length + U8 - 2) % U8

(* take(length - 3) on a u8 with wrapping subtraction *)
payload_len(length) == (length + U8 - 3) % U8

be_u16(s) == s[1] * U8 + s[2]

(* A result of find_msg.  remaining is the slice the result carries: the    *)
(* rest of the input for Ok, the slice of the nom error otherwise.  The     *)
(* other fields are the locals of find_msg at the point of return, with     *)
(* their initial value where the code had not yet set them.                 *)
Result(kind, code, remaining, at, sync, r, taken, cm, cc, ph) ==
    [kind |-> kind, code |-> code, remaining |-> remaining, mark |-> at,
     sync_type |-> sync, ack |-> r.ack, id |-> r.id, length |-> r.length,
     taken |-> taken, chksum_msg |-> cm, chksum_calc |-> cc,
     packet |-> ph]

Unset == [ack |-> FALSE, id |-> 0, length |-> 0]

NoResult == Result("None", "", << >>, 0, "None", Unset, << >>, 0, 0, NoPacket)

IncompleteKind_failure == "Failure"

(* nom's complete parsers (take, be_u8, be_u16) return Err::Error when the  *)
(* input is shorter than what they take.                                    *)
IncompleteKind == "Error"

(* overflow_checks: the build profile; length - 3 on a u8 panics when they  *)
(* are on (debug) and wraps when they are off (release).                    *)
find_msg(input, overflow_checks) ==
    LET at == many_till(input, 1) IN
    IF at = 0
    THEN Result(IncompleteKind, "Eof", << >>, 0, "None", Unset, << >>, 0, 0, NoPacket)
    ELSE
    LET in0 == Drop(input, at + 1) IN
    IF Len(in0) < 1
    THEN Result(IncompleteKind, "Eof", in0, at, "None", Unset, << >>, 0, 0, NoPacket)
    ELSE
    LET rem1 == Drop(in0, 1)
        sync_type == from_u8(in0[1])
    IN
    IF sync_type = "None"
    THEN Result("Failure", "IsNot", rem1, at, "None", Unset, << >>, 0, 0, NoPacket)
    ELSE IF Len(rem1) < 1
    THEN Result(IncompleteKind, "Eof", rem1, at, sync_type, Unset, << >>, 0, 0, NoPacket)
    ELSE
    LET rem2 == Drop(rem1, 1) IN
    IF Len(rem2) < 1
    THEN Result(IncompleteKind, "Eof", rem2, at, sync_type, Unset, << >>, 0, 0, NoPacket)
    ELSE
    LET rem3 == Drop(rem2, 1)
        r == Resolve(rem1[1], rem2[1])
    IN
    IF LengthRejected(r.length)
    THEN Result("Failure", "IsNot", rem3, at, sync_type, r, << >>, 0, 0, NoPacket)
    ELSE IF r.length < 3 /\ overflow_checks
    THEN Result("Panic", "attempt to subtract with overflow", rem3, at, sync_type,
                r, << >>, 0, 0, NoPacket)
    ELSE
    LET count == payload_len(r.length) IN
    IF Len(rem3) < count
    THEN Result(IncompleteKind, "Eof", rem3, at, sync_type, r, << >>, 0, 0, NoPacket)
    ELSE
    LET pl == Take(rem3, count)
        rem4 == Drop(rem3, count)
    IN
    IF Len(rem4) < 2
    THEN Result(IncompleteKind, "Eof", rem4, at, sync_type, r, pl, 0, 0, NoPacket)
    ELSE
    LET rem5 == Drop(rem4, 2)
        cm == be_u16(rem4)
        cc == chksum_calc(in0, r.length)
    IN
    IF cc # cm
    THEN Result("Failure", "IsNot", rem5, at, sync_type, r, pl, cm, cc, NoPacket)
    ELSE
    LET ph == PacketHandle_parse(pl, r.id, r.ack, sync_type) IN
    IF ph.tag = "Ok"
    THEN Result("Ok", "", rem5, at, sync_type, r, pl, cm, cc, ph.payload)
    ELSE IF ph.tag = "Err"
    THEN Result("Panic", "Failed to parse", rem5, at, sync_type, r, pl, cm, cc, NoPacket)
    ELSE Result("Panic", "index out of bounds", rem5, at, sync_type, r, pl, cm, cc,
                NoPacket)

----------------------------------------------------------------------------
(* magic::parse (wyze/src/magic.rs): the frame reader of the hub *)

leader == << 85, 170 >>

PacketType_Async == 83

(* take_until(leader): the offset of the first occurrence of the leader,    *)
(* 0 (an Err::Error) when the input holds none.                             *)
RECURSIVE take_until(_, _)
take_until(msg, i) ==
    IF i + 1 > Len(msg) THEN 0
    ELSE IF << msg[i], msg[i + 1] >> = leader THEN i
    ELSE take_until(msg, i + 1)

RawMessage(cmd_type, cmd_id, pl) ==
    [cmd_type |-> cmd_type, cmd_id |-> cmd_id, payload |-> pl]

NoMessage == RawMessage("None", 0, << >>)

(* cmd_type: Async for 0x53, Sync for every other byte *)
PacketType(cmd_type) == IF cmd_type = PacketType_Async THEN "Async" ELSE "Sync"

MagicResult(kind, code, remaining, msg) ==
    [kind |-> kind, code |-> code, remaining |-> remaining, msg |-> msg]

(* length as usize - 3 panics below 3 when overflow checks are on; when     *)
(* they are off it wraps to a count no slice holds and take fails.  The     *)
(* checksum bytes are taken and dropped.                                    *)
magic_parse(msg, overflow_checks) ==
    LET at == take_until(msg, 1) IN
    IF at = 0 THEN MagicResult("Error", "TakeUntil", msg, NoMessage)
    ELSE
    LET m2 == Drop(msg, at + 1) IN
    IF Len(m2) < 3 THEN MagicResult("Error", "Eof", m2, NoMessage)
    ELSE
    LET cmd_type == m2[1]
        length == m2[2]
        cmd_id == m2[3]
        m5 == Drop(m2, 3)
    IN
    IF cmd_id = ACK_SENTINEL
    THEN IF Len(m5) < 2 THEN MagicResult("Error", "Eof", m5, NoMessage)
         ELSE MagicResult("Ok", "", Drop(m5, 2),
                          RawMessage(PacketType(cmd_type), cmd_id, << >>))
    ELSE IF length < 3
    THEN IF overflow_checks
         THEN MagicResult("Panic", "attempt to subtract with overflow", m5, NoMessage)
         ELSE MagicResult("Error", "Eof", m5, NoMessage)
    ELSE IF Len(m5) < length - 3 THEN MagicResult("Error", "Eof", m5, NoMessage)
    ELSE
    LET pl == Take(m5, length - 3)
        m6 == Drop(m5, length - 3)
    IN
    IF Len(m6) < 2 THEN MagicResult("Error", "Eof", m6, NoMessage)
    ELSE MagicResult("Ok", "", Drop(m6, 2), RawMessage(PacketType(cmd_type), cmd_id, pl))

----------------------------------------------------------------------------
(* Input spaces *)

Marks == { BRIDGE_MARK, HOST_MARK }

TypeBytes == { SYNC, ASYNC, 0 }

PayloadBytes == { 1, SPACE }

NoiseBytes == { 85 }

TrailBytes == { 170 }

CMD_IDS ==
    { InquiryPacket_CMD_ID, MacPacket_CMD_ID, VersionPacket_CMD_ID,
      SensorCountPacket_CMD_ID, SensorListPacket_CMD_ID, AuthPacket_CMD_ID }

RSP_IDS ==
    { InquiryPacket_RSP_ID, MacPacket_RSP_ID, VersionPacket_RSP_ID,
      SensorCountPacket_RSP_ID, SensorListPacket_RSP_ID, AuthPacket_RSP_ID }

RegisteredIds == CMD_IDS \cup RSP_IDS

(* 153 (0x99) is an identifier no packet kind registers *)
FieldAs == (0 .. MaxPayload + 3) \cup { AuthPacket_RSP_ID, 153 }

FieldBs ==
    { AuthPacket_CMD_ID, AuthPacket_RSP_ID, MacPacket_RSP_ID, VersionPacket_RSP_ID,
      153, ACK_SENTINEL }

Bodies == SeqsUpTo(PayloadBytes, MaxPayload)

Noises == SeqsUpTo(NoiseBytes, MaxNoise)

Trails == SeqsUpTo(TrailBytes, MaxTrail)

(* A frame as the peer writes it: header, body and the checksum of send     *)
(* over all of it, plus delta (0 for an undamaged checksum).                *)
Wire(mark, type, a, b, body, delta) ==
    LET write == mark \o << type, a, b >> \o body
    IN  write \o ck_bytes((Fold16(write, 1, 0) + delta) % U16)

CkDeltas == { 0, 1 }

RawStreams ==
    { n \o Wire(m, t, a, b, body, d) \o g :
        n \in Noises, m \in Marks, t \in TypeBytes, a \in FieldAs, b \in FieldBs,
        body \in Bodies, d \in CkDeltas, g \in Trails }

(* The payloads section 4.3 of the specification gives each sub-shape *)
EmptyIds ==
    { InquiryPacket_CMD_ID, MacPacket_CMD_ID, VersionPacket_CMD_ID,
      SensorCountPacket_CMD_ID, AuthPacket_RSP_ID }

ByteIds ==
    { InquiryPacket_RSP_ID, SensorCountPacket_RSP_ID, SensorListPacket_CMD_ID,
      AuthPacket_CMD_ID }

TextIds == { MacPacket_RSP_ID, SensorListPacket_RSP_ID }

CountSpaces(s) == Cardinality({ i \in 1 .. Len(s) : s[i] = SPACE })

WellFormed(id, body) ==
    \/ id \in EmptyIds /\ body = << >>
    \/ id \in ByteIds /\ Len(body) = 1
    \/ id \in TextIds /\ from_utf8(body)
    \/ id = VersionPacket_RSP_ID /\ from_utf8(body) /\ CountSpaces(body) = 3

(* Valid frames: registered id, well-formed payload, correct checksum *)
ValidFrames ==
    UNION { { Wire(m, t, Len(body) + 3, id, body, 0) :
                m \in Marks, t \in { SYNC, ASYNC },
                body \in { x \in Bodies : WellFormed(id, x) } } :
            id \in RegisteredIds }
    \cup
    { Wire(m, t, id, ACK_SENTINEL, << >>, 0) :
        m \in Marks, t \in { SYNC, ASYNC }, id \in RegisteredIds }

----------------------------------------------------------------------------
(* The caller: it scans its buffer, keeps the remainder after a frame or    *)
(* an invalid frame, and waits for more bytes when the scanner reports      *)
(* insufficient input.                                                      *)

Scan(overflow_checks) ==
    /\ pc = "ready"
    /\ LET r == find_msg(buf, overflow_checks) IN
       /\ res' = r
       /\ scanned' = buf
       /\ frames' = IF r.kind = "Ok" THEN Append(frames, r.packet) ELSE frames
       /\ buf' = IF r.kind \in { "Ok", "Failure" } THEN r.remaining ELSE buf
       /\ pc' = CASE r.kind \in { "Ok", "Failure" } -> "ready"
                  [] r.kind = "Error" -> IF rest = << >> THEN "done" ELSE "wait"
                  [] OTHER -> "aborted"
    /\ calls' = calls + 1
    /\ UNCHANGED << rest, delivered, orig, cpos, val, payload, decoded, arg_id,
                    arg_ack, written, reads, step >>

Deliver ==
    /\ pc = "wait"
    /\ buf' = buf \o rest
    /\ rest' = << >>
    /\ delivered' = delivered + 1
    /\ pc' = "ready"
    /\ UNCHANGED << scanned, res, frames, orig, cpos, val, payload, decoded, arg_id,
                    arg_ack, written, reads, step, calls >>

(* One byte of the stream is replaced by a different value in transit *)
Corrupt(i, v) ==
    /\ pc = "fresh"
    /\ i \in 1 .. Len(buf)
    /\ v # buf[i]
    /\ buf' = [buf EXCEPT ![i] = v]
    /\ cpos' = i
    /\ pc' = "ready"
    /\ UNCHANGED << rest, delivered, scanned, res, frames, orig, val, payload, decoded,
                    arg_id, arg_ack, written, reads, step, calls >>

Pack ==
    /\ pc = "value"
    /\ payload' = Packet_pack(val)
    /\ pc' = "packed"
    /\ UNCHANGED << buf, rest, delivered, scanned, res, frames, orig, cpos, val,
                    decoded, arg_id, arg_ack, written, reads, step, calls >>

Parse ==
    /\ pc = "packed"
    /\ decoded' = Packet_parse(val.kind, payload, message_type(val))
    /\ pc' = "parsed"
    /\ UNCHANGED << buf, rest, delivered, scanned, res, frames, orig, cpos, val,
                    payload, arg_id, arg_ack, written, reads, step, calls >>

Idle(stream, first, start, v) ==
    /\ orig = stream
    /\ buf = first
    /\ rest = Drop(stream, Len(first))
    /\ delivered = 0
    /\ scanned = << >>
    /\ res = NoResult
    /\ frames = << >>
    /\ cpos = 0
    /\ val = v
    /\ payload = << >>
    /\ decoded = PErr
    /\ arg_id = 0
    /\ arg_ack = FALSE
    /\ written = << >>
    /\ reads = 0
    /\ step = 1
    /\ calls = 0
    /\ pc = start

(* Scanning: one stream, in the buffer from the start *)
InitScan == \E s \in RawStreams : Idle(s, s, "ready", NoPacket)

NextScan == \E oc \in BOOLEAN : Scan(oc)

SpecScan == InitScan /\ [][NextScan]_vars

(* One valid frame followed by trailing bytes, intact or with one byte of   *)
(* type, field A, field B or payload damaged in transit.                    *)
GarbageBytes == { 0, 85, 170 }

Garbage == SeqsUpTo(GarbageBytes, MaxTrail)

CorruptVals == { 0, 1, 2, 3, 4, 5, 21, 32, 67, 83, 254, 255 }

OrigDeclared == IF orig[5] = ACK_SENTINEL THEN 3 ELSE orig[4]

OrigFrameLen == 2 + OrigDeclared + 2

Intact ==
    /\ pc = "fresh"
    /\ pc' = "ready"
    /\ UNCHANGED << buf, rest, delivered, scanned, res, frames, orig, cpos, val,
                    payload, decoded, arg_id, arg_ack, written, reads, step, calls >>

InitFrame ==
    \E f \in ValidFrames, g \in Garbage : Idle(f \o g, f \o g, "fresh", NoPacket)

NextFrame ==
    \/ Intact
    \/ \E i \in 3 .. OrigFrameLen - 2, v \in CorruptVals : Corrupt(i, v)
    \/ \E oc \in BOOLEAN : Scan(oc)

SpecFrame == InitFrame /\ [][NextFrame]_vars

(* A stream of valid frames delivered in two chunks, split at any offset *)
SplitFrames ==
    { Wire(HOST_MARK, ASYNC, 4, AuthPacket_CMD_ID, << 1 >>, 0),
      Wire(BRIDGE_MARK, ASYNC, 3, AuthPacket_RSP_ID, << >>, 0),
      Wire(BRIDGE_MARK, SYNC, 5, MacPacket_RSP_ID, << 55, 55 >>, 0),
      Wire(BRIDGE_MARK, ASYNC, SensorCountPacket_CMD_ID, ACK_SENTINEL, << >>, 0),
      Wire(BRIDGE_MARK, SYNC, 4, InquiryPacket_RSP_ID, << 1 >>, 0),
      Wire(HOST_MARK, ASYNC, 4, SensorListPacket_CMD_ID, << 5 >>, 0) }

RECURSIVE FrameStreams(_)
FrameStreams(n) ==
    IF n = 0 THEN { << >> }
    ELSE FrameStreams(n - 1)
            \cup { s \o f : s \in FrameStreams(n - 1), f \in SplitFrames }

SplitStreams == ValidFrames \cup FrameStreams(MaxFrames)

InitSplit ==
    \E s \in SplitStreams :
        \E k \in 0 .. Len(s) : Idle(s, Take(s, k), "ready", NoPacket)

NextSplit ==
    \/ \E oc \in BOOLEAN : Scan(oc)
    \/ Deliver

SpecSplit == InitSplit /\ [][NextSplit]_vars

(* The codec alone: a value is packed and its payload parsed back *)
ByteSample == { 0, 1, 255 }

TextBytes == { SPACE, 55 }

Texts == SeqsUpTo(TextBytes, MaxText)

Values ==
    { Pkt(k, "Ack", << >>, << >>) :
        k \in { "Inquiry", "Mac", "Version", "SensorCount", "SensorList", "Auth" } }
    \cup { Pkt(k, "Command", << >>, << >>) :
            k \in { "Inquiry", "Mac", "Version", "SensorCount" } }
    \cup { Pkt("Auth", "Response", << >>, << >>) }
    \cup { Pkt(k, "Response", << b >>, << >>) :
            k \in { "Inquiry", "SensorCount" }, b \in ByteSample }
    \cup { Pkt(k, "Command", << b >>, << >>) :
            k \in { "SensorList", "Auth" }, b \in ByteSample }
    \cup { Pkt(k, "Response", << >>, << t >>) :
            k \in { "Mac", "SensorList" }, t \in Texts }
    \cup { Pkt("Version", "Response", << >>, << a, b, c, d >>) :
            a \in Texts, b \in Texts, c \in Texts, d \in Texts }

InitCodec == \E v \in Values : Idle(<< >>, << >>, "value", v)

NextCodec == Pack \/ Parse

SpecCodec == InitCodec /\ [][NextCodec]_vars

(* The decoder alone: PacketPayload::parse applied to an identifier, an ack *)
(* flag and a payload.  255 is a byte that no UTF-8 text contains, 153 an   *)
(* identifier no kind registers.                                            *)
MaxInput == 3

InputBytes == { 1, SPACE, 55, 255 }

Inputs == SeqsUpTo(InputBytes, MaxInput)

(* "0.0.0.30 V1.4 Dongle UD3U", the payload of the sample version response *)
VERSION_TEXT ==
    << 48, 46, 48, 46, 48, 46, 51, 48, SPACE, 86, 49, 46, 52, SPACE,
       68, 111, 110, 103, 108, 101, SPACE, 85, 68, 51, 85 >>

(* Texts of four fields joined by single spaces *)
FieldTexts == SeqsUpTo({ 55 }, MaxText)

VersionTexts ==
    { f[1] \o << SPACE >> \o f[2] \o << SPACE >> \o f[3] \o << SPACE >> \o f[4] :
        f \in [1 .. 4 -> FieldTexts] } \cup { VERSION_TEXT }

DecodeIds == RegisteredIds \cup { 0, 153, ACK_SENTINEL }

Decode ==
    /\ pc = "payload"
    /\ decoded' = PacketPayload_parse(payload, arg_id, arg_ack)
    /\ pc' = "decoded"
    /\ UNCHANGED << buf, rest, delivered, scanned, res, frames, orig, cpos, val,
                    payload, arg_id, arg_ack, written, reads, step, calls >>

InitDecode ==
    \E i \in DecodeIds, a \in BOOLEAN, p \in Inputs \cup VersionTexts :
        /\ orig = << >>
        /\ buf = << >>
        /\ rest = << >>
        /\ delivered = 0
        /\ scanned = << >>
        /\ res = NoResult
        /\ frames = << >>
        /\ cpos = 0
        /\ val = NoPacket
        /\ payload = p
        /\ decoded = PErr
        /\ arg_id = i
        /\ arg_ack = a
        /\ written = << >>
        /\ reads = 0
        /\ step = 1
        /\ calls = 0
        /\ pc = "payload"

NextDecode == Decode

SpecDecode == InitDecode /\ [][NextDecode]_vars

(* WyzeHub::raw_read (wyze/src/hub.rs): one interrupt transfer is submitted *)
(* and awaited; a transfer that completes without success is submitted      *)
(* again; the bytes of a successful one are handed to magic::parse, whose   *)
(* result is unwrapped, and the remainder is parsed once more.              *)
MaxRetry == 2

MaxReads == 8

(* Lines 116-123: the messages logged and whether raw_read returns *)
raw_read_parse(bytes, overflow_checks) ==
    LET first == magic_parse(bytes, overflow_checks) IN
    IF first.kind # "Ok"
    THEN [outcome |-> "Panic", first |-> first, msgs |-> << >>]
    ELSE LET second == magic_parse(first.remaining, overflow_checks) IN
         IF second.kind = "Ok"
         THEN [outcome |-> "Ok", first |-> first, msgs |-> << first.msg, second.msg >>]
         ELSE IF second.kind = "Panic"
         THEN [outcome |-> "Panic", first |-> first, msgs |-> << first.msg >>]
         ELSE [outcome |-> "Ok", first |-> first, msgs |-> << first.msg >>]

(* raw_read returning to its caller when a transfer did not succeed *)
Resubmit_returns ==
    /\ pc = "reading"
    /\ delivered < MaxRetry
    /\ delivered' = delivered + 1
    /\ pc' = "init"
    /\ UNCHANGED << buf, rest, scanned, res, frames, orig, cpos, val, payload, decoded,
                    arg_id, arg_ack, written, reads, step, calls >>

Resubmit ==
    /\ pc = "reading"
    /\ delivered < MaxRetry
    /\ delivered' = delivered + 1
    /\ UNCHANGED << buf, rest, scanned, res, frames, orig, cpos, val, payload, decoded,
                    arg_id, arg_ack, written, reads, step, calls, pc >>

Receive(overflow_checks) ==
    /\ pc = "reading"
    /\ LET out == raw_read_parse(rest, overflow_checks) IN
       /\ buf' = rest
       /\ rest' = << >>
       /\ scanned' = rest
       /\ res' = out.first
       /\ frames' = out.msgs
       /\ pc' = IF out.outcome = "Ok" THEN "returned" ELSE "aborted"
    /\ UNCHANGED << delivered, orig, cpos, val, payload, decoded, arg_id, arg_ack,
                    written, reads, step, calls >>

(* The chunks the bridge delivers: up to MaxFrames + 1 valid frames back to *)
(* back, single frames with any type byte and field pair, and stray bytes.  *)
BridgeFrames == { f \in SplitFrames : Take(f, 2) = leader }

RECURSIVE StreamsOf(_, _)
StreamsOf(F, n) ==
    IF n = 0 THEN { << >> }
    ELSE StreamsOf(F, n - 1) \cup { s \o f : s \in StreamsOf(F, n - 1), f \in F }

FrameChunks == StreamsOf(BridgeFrames, MaxFrames + 1)

HubChunks ==
    FrameChunks
        \cup { Wire(leader, t, a, b, body, 0) :
                t \in TypeBytes, a \in FieldAs, b \in FieldBs, body \in Bodies }
        \cup Garbage

InitHub == \E c \in HubChunks : Idle(c, << >>, "reading", NoPacket)

NextHub ==
    \/ Resubmit
    \/ \E oc \in BOOLEAN : Receive(oc)

SpecHub == InitHub /\ [][NextHub]_vars

(* Scanning behind noise: up to MaxNoise + 1 stray bytes, marker bytes      *)
(* among them, in front of a frame, of the first bytes of one, or of        *)
(* nothing.                                                                 *)
NoisePrefixes == SeqsUpTo(GarbageBytes, MaxNoise + 1)

NoiseTails ==
    SplitFrames \cup { Take(f, k) : f \in SplitFrames, k \in 0 .. 4 }

InitNoise ==
    \E n \in NoisePrefixes, t \in NoiseTails : Idle(n \o t, n \o t, "ready", NoPacket)

NextNoise == \E oc \in BOOLEAN : Scan(oc)

SpecNoise == InitNoise /\ [][NextNoise]_vars

(* WyzeHub::init (wyze/src/hub.rs): the statements of init in order; the   *)
(* last one is the body of the final loop.                                  *)
SendStmt(packet) == [op |-> "send", packet |-> packet]

ReadStmt == [op |-> "raw_read", packet |-> HubPacket("None", "None", 0, << >>)]

WyzeHub_init_one_read_each ==
    << SendStmt(InquiryPacket), ReadStmt,
       SendStmt(GetMacPacket), ReadStmt,
       SendStmt(GetVerPacket), ReadStmt,
       SendStmt(GetSensorCountPacket), ReadStmt,
       SendStmt(GetSensorListPacket(5)), ReadStmt,
       SendStmt(AuthPacket_create_done),
       ReadStmt >>

WyzeHub_init ==
    << SendStmt(InquiryPacket), ReadStmt,
       SendStmt(GetMacPacket), ReadStmt,
       SendStmt(GetVerPacket), ReadStmt,
       SendStmt(GetSensorCountPacket), ReadStmt,
       SendStmt(GetSensorListPacket(5)), ReadStmt, ReadStmt, ReadStmt,
       SendStmt(AuthPacket_create_done),
       ReadStmt >>

FinalLoop == Len(WyzeHub_init)

(* self.send(packet): the buffer goes out in one control transfer *)
init_send ==
    /\ pc = "init"
    /\ WyzeHub_init[step].op = "send"
    /\ written' = Append(written, WyzeHub_send(WyzeHub_init[step].packet))
    /\ step' = step + 1
    /\ UNCHANGED << buf, rest, delivered, scanned, res, frames, orig, cpos, val, payload,
                    decoded, arg_id, arg_ack, reads, calls, pc >>

(* raw_read is entered: the interrupt transfer is submitted *)
submit ==
    /\ pc = "init"
    /\ WyzeHub_init[step].op = "raw_read"
    /\ reads < MaxReads
    /\ delivered' = 0
    /\ pc' = "reading"
    /\ UNCHANGED << buf, rest, scanned, res, frames, orig, cpos, val, payload, decoded,
                    arg_id, arg_ack, written, reads, step, calls >>

(* A transfer completes with status Success and delivers bytes: raw_read    *)
(* parses them and returns Ok(()), or panics in the unwrap; init moves to   *)
(* its next statement and stays in the final loop once there.               *)
Success(bytes, overflow_checks) ==
    /\ pc = "reading"
    /\ LET out == raw_read_parse(bytes, overflow_checks) IN
       /\ buf' = bytes
       /\ scanned' = bytes
       /\ res' = out.first
       /\ frames' = out.msgs
       /\ IF out.outcome = "Ok"
          THEN /\ reads' = reads + 1
               /\ step' = IF step = FinalLoop THEN step ELSE step + 1
               /\ pc' = "init"
          ELSE /\ pc' = "aborted"
               /\ UNCHANGED << reads, step >>
    /\ UNCHANGED << rest, delivered, orig, cpos, val, payload, decoded, arg_id, arg_ack,
                    written, calls >>

(* write_all, submit or any returns an error and the unwrap panics *)
TransportError ==
    /\ pc \in { "init", "reading" }
    /\ pc = "init" => WyzeHub_init[step].op = "send" \/ reads < MaxReads
    /\ pc' = "aborted"
    /\ UNCHANGED << buf, rest, delivered, scanned, res, frames, orig, cpos, val, payload,
                    decoded, arg_id, arg_ack, written, reads, step, calls >>

(* The chunks a transfer delivers to init *)
InitChunks == StreamsOf(BridgeFrames, MaxFrames) \cup Garbage

InitInit == Idle(<< >>, << >>, "init", NoPacket)

NextInit ==
    \/ init_send
    \/ submit
    \/ Resubmit
    \/ \E c \in InitChunks, oc \in BOOLEAN : Success(c, oc)
    \/ TransportError

SpecInit == InitInit /\ [][NextInit]_vars

(* init runs on and every submitted transfer eventually completes with     *)
(* status Success                                                           *)
FairInit ==
    /\ WF_vars(init_send)
    /\ WF_vars(submit)
    /\ WF_vars(\E c \in InitChunks, oc \in BOOLEAN : Success(c, oc))

SpecInitFair == SpecInit /\ FairInit

(* The driver resumes after a rejected header: a header find_msg rejects,   *)
(* or a bare marker, in front of a whole frame                              *)
SpanLengths == { 8, 10 }

RejectedHeaders ==
    Marks
        \cup { m \o << 0 >> : m \in Marks }
        \cup { m \o << t, 1, InquiryPacket_CMD_ID >> : m \in Marks, t \in { SYNC, ASYNC } }
        \cup { Wire(m, ASYNC, 3, AuthPacket_RSP_ID, << >>, 1) : m \in Marks }
        \cup { m \o << ASYNC, n, AuthPacket_RSP_ID >> : m \in Marks, n \in SpanLengths }

ResumeStreams ==
    { h \o f \o g : h \in RejectedHeaders, f \in SplitFrames, g \in Trails }

InitResume == \E s \in ResumeStreams : Idle(s, s, "ready", NoPacket)

NextResume == \E oc \in BOOLEAN : Scan(oc)

SpecResume == InitResume /\ [][NextResume]_vars

(* The hub sends one packet and the peer scans the buffer written *)
NoHubPacket == HubPacket("None", "None", 0, << >>)

Commands ==
    { InquiryPacket, GetMacPacket, GetVerPacket, GetSensorCountPacket }
        \cup { GetSensorListPacket(c) : c \in Byte }
        \cup { AuthPacket(c) : c \in Byte }

Acks == { AckPacket(x) : x \in Byte }

Send ==
    /\ pc = "sending"
    /\ LET write == WyzeHub_send(val) IN
       /\ written' = Append(written, write)
       /\ orig' = write
       /\ buf' = write
    /\ pc' = "ready"
    /\ UNCHANGED << rest, delivered, scanned, res, frames, cpos, val, payload, decoded,
                    arg_id, arg_ack, reads, step, calls >>

InitSend == \E p \in Commands \cup Acks : Idle(<< >>, << >>, "sending", p)

NextSend ==
    \/ Send
    \/ \E oc \in BOOLEAN : Scan(oc)

SpecSend == InitSend /\ [][NextSend]_vars

----------------------------------------------------------------------------
(* The last scan, read off the scanned bytes themselves *)

WasScanned == res.kind # "None"

MarkOffsets(s) == { i \in 1 .. Len(s) - 1 : << s[i], s[i + 1] >> \in Marks }

FirstMark(s) ==
    IF MarkOffsets(s) = { } THEN 0
    ELSE CHOOSE i \in MarkOffsets(s) : \A j \in MarkOffsets(s) : i <= j

(* The scanned bytes hold a marker followed by type, field A and field B *)
HasHeader ==
    /\ WasScanned
    /\ FirstMark(scanned) # 0
    /\ Len(scanned) >= FirstMark(scanned) + 4

TypeByte == scanned[FirstMark(scanned) + 2]

FieldA == scanned[FirstMark(scanned) + 3]

FieldB == scanned[FirstMark(scanned) + 4]

Declared == IF FieldB = ACK_SENTINEL THEN 3 ELSE FieldA

(* ... and all the bytes a header with a valid type and a declared length   *)
(* of 3 or more asks for: the payload and the two checksum bytes.           *)
HasFrame ==
    /\ HasHeader
    /\ TypeByte \in { SYNC, ASYNC }
    /\ Declared >= 3
    /\ Len(scanned) >= FirstMark(scanned) + 1 + Declared + 2

Stored ==
    scanned[FirstMark(scanned) + 2 + Declared] * U8
        + scanned[FirstMark(scanned) + 3 + Declared]

Expected ==
    (255 + SumBytes(scanned, FirstMark(scanned) + 2, FirstMark(scanned) + 1 + Declared))
        % U16

(* C1: a complete frame passes the checksum comparison exactly when its two *)
(* trailing bytes, read big-endian, equal (0x00FF + the sum of the bytes    *)
(* from the type byte through the last payload byte) mod 2^16; with any     *)
(* other checksum bytes the result is Invalid (Failure), no packet is       *)
(* decoded, and a decoded packet always had the matching checksum.          *)
C1_ChecksumRule ==
    HasFrame =>
        /\ (Stored # Expected) <=> (res.kind = "Failure")
        /\ Stored # Expected => res.packet = NoPacket /\ res.code = "IsNot"
        /\ res.kind = "Ok" => Stored = Expected

(* A frame whose last checksum byte alone is off by one was scanned *)
C1_Witness ==
    /\ HasFrame
    /\ Stored = (Expected + 1) % U16
    /\ Stored \div U8 = Expected \div U8
    /\ res.kind = "Failure"

(* C2: field B = 0xFF gives ack, id = field A and declared length 3 (no     *)
(* payload bytes); any other field B gives no ack, declared length =        *)
(* field A and id = field B.                                                *)
C2_FieldResolution ==
    HasHeader /\ TypeByte \in { SYNC, ASYNC } =>
        /\ FieldB = ACK_SENTINEL =>
              res.ack /\ res.id = FieldA /\ res.length = 3 /\ res.taken = << >>
        /\ FieldB # ACK_SENTINEL =>
              ~res.ack /\ res.id = FieldB /\ res.length = FieldA
        /\ res.kind = "Ok" =>
              /\ Len(res.taken) = Declared - 3
              /\ Len(scanned) - Len(res.remaining) = FirstMark(scanned) + 3 + Declared
              /\ (res.packet.role = "Ack") <=> (FieldB = ACK_SENTINEL)

(* An ack frame acknowledging a registered id was decoded *)
C2_Witness ==
    /\ HasHeader
    /\ FieldB = ACK_SENTINEL
    /\ FieldA = AuthPacket_RSP_ID
    /\ res.kind = "Ok"
    /\ res.packet = Pkt("Auth", "Ack", << >>, << >>)

(* C5: find_msg returns a value for every input and never panics *)
C5_NeverPanics == res.kind # "Panic"

(* C6: a checksum-valid frame with an unregistered id yields a recoverable  *)
(* outcome: the scan returns and the caller goes on with the remainder.     *)
C6_UnknownCommandRecoverable ==
    HasFrame /\ Stored = Expected /\ res.id \notin RegisteredIds =>
        res.kind # "Panic" /\ pc # "aborted"

(* C10: a non-ack frame whose field A is below 2 is rejected as Invalid     *)
(* right after field B, whatever follows.                                   *)
C10_ShortLengthRejected ==
    HasHeader /\ TypeByte \in { SYNC, ASYNC } /\ FieldB # ACK_SENTINEL /\ FieldA < 2 =>
        /\ res.kind = "Failure"
        /\ res.remaining = Drop(scanned, FirstMark(scanned) + 4)
        /\ res.taken = << >>
        /\ res.packet = NoPacket

(* A header with declared length 1 followed by further bytes was rejected *)
C10_Witness ==
    /\ HasHeader
    /\ TypeByte = ASYNC
    /\ FieldB = AuthPacket_RSP_ID
    /\ FieldA = 1
    /\ Len(scanned) > FirstMark(scanned) + 4
    /\ res.kind = "Failure"

(* The first scan of a stream that held one valid frame and trailing bytes *)
FirstScan == WasScanned /\ Len(scanned) = Len(orig)

(* C3: a valid frame followed by any bytes G scans to the packet of the     *)
(* frame with remainder G: exactly the frame's bytes are consumed.          *)
C3_ConsumesExactlyTheFrame ==
    FirstScan /\ cpos = 0 =>
        /\ res.kind = "Ok"
        /\ res.remaining = Drop(orig, OrigFrameLen)
        /\ Len(scanned) - Len(res.remaining) = OrigFrameLen
        /\ res.id = IF orig[5] = ACK_SENTINEL THEN orig[4] ELSE orig[5]
        /\ res.packet = find_msg(Take(orig, OrigFrameLen), TRUE).packet
        /\ find_msg(Take(orig, OrigFrameLen), TRUE).kind = "Ok"
        /\ frames = << res.packet >>

(* A frame with a payload, followed by a trailing marker byte, was decoded *)
C3_Witness ==
    /\ FirstScan
    /\ cpos = 0
    /\ Len(orig) > OrigFrameLen
    /\ OrigDeclared > 3
    /\ res.kind = "Ok"
    /\ res.remaining = << 170 >>

(* C4: parse(pack(v), message_type(v)) = Ok(v) for every value v *)
C4_RoundTrip == pc = "parsed" => decoded = POk(val)

(* The sequence of packets a caller decodes from b in one pass *)
RECURSIVE DecodeAll(_)
DecodeAll(b) ==
    IF b = << >> THEN << >>
    ELSE LET r == find_msg(b, TRUE) IN
         IF r.kind = "Ok" THEN << r.packet >> \o DecodeAll(r.remaining)
         ELSE IF r.kind = "Failure" THEN DecodeAll(r.remaining)
         ELSE << >>

RECURSIVE CountFrames(_)
CountFrames(b) ==
    IF Len(b) < 5 THEN 0
    ELSE 1 + CountFrames(Drop(b, 4 + (IF b[5] = ACK_SENTINEL THEN 3 ELSE b[4])))

(* C7: a stream of valid frames delivered in two chunks, split anywhere,    *)
(* decodes to the same sequence of packets as the whole stream scanned at   *)
(* once: what is decoded so far plus what the bytes still held or pending   *)
(* decode to is always the one-pass result, and it is the final result.     *)
C7_SplitEquivalence ==
    /\ frames \o DecodeAll(buf \o rest) = DecodeAll(orig)
    /\ Len(DecodeAll(orig)) = CountFrames(orig)
    /\ pc = "done" => frames = DecodeAll(orig) /\ rest = << >>
    /\ pc # "aborted"

(* Two frames were decoded, the second one after the second chunk arrived *)
C7_Witness ==
    /\ pc = "done"
    /\ delivered = 1
    /\ Len(frames) = 2
    /\ frames = DecodeAll(orig)

IsProperPrefix(p, f) == Len(p) < Len(f) /\ p = Take(f, Len(p))

(* C8: scanning a proper prefix of a valid frame reports insufficient       *)
(* input (Error), never Invalid and never a packet.                         *)
C8_PrefixIsNoFrame ==
    WasScanned /\ (\E f \in ValidFrames : IsProperPrefix(scanned, f)) =>
        /\ res.kind = "Error"
        /\ res.packet = NoPacket

(* A prefix that holds the whole header but not the whole checksum *)
C8_Witness ==
    /\ WasScanned
    /\ Len(scanned) >= 6
    /\ \E f \in ValidFrames : IsProperPrefix(scanned, f) /\ Len(f) = Len(scanned) + 1
    /\ res.kind = "Error"

(* The damaged byte leaves the resolved ack flag and declared length as     *)
(* they were: the type byte, a payload byte, field A of an ack frame, or    *)
(* field B of a non-ack frame replaced by a value other than 0xFF.          *)
KeepsLength ==
    \/ cpos = 3
    \/ cpos > 5
    \/ cpos = 4 /\ orig[5] = ACK_SENTINEL
    \/ cpos = 5 /\ orig[5] # ACK_SENTINEL /\ scanned[5] # ACK_SENTINEL

(* C9 as stated: any single damaged byte of type, field A, field B or       *)
(* payload makes the scan yield Invalid.                                    *)
C9_AnyDamageIsInvalid == FirstScan /\ cpos # 0 => res.kind = "Failure"

(* C9 amended: damage that keeps the resolved length and ack flag makes     *)
(* the scan yield Invalid and no packet, the computed sum having moved off  *)
(* the stored checksum by the change of the byte; other damage never        *)
(* yields the packet of the undamaged frame with its remainder.             *)
C9_DamageKeepingLengthIsInvalid ==
    FirstScan /\ cpos # 0 =>
        /\ KeepsLength => res.kind = "Failure" /\ res.packet = NoPacket
        /\ KeepsLength /\ scanned[3] \in { SYNC, ASYNC } =>
              /\ res.chksum_msg = be_u16(Drop(orig, OrigFrameLen - 2))
              /\ res.chksum_calc
                    = (res.chksum_msg + U16 + scanned[cpos] - orig[cpos]) % U16
        /\ ~(res.kind = "Ok"
             /\ res.packet = find_msg(orig, TRUE).packet
             /\ res.remaining = Drop(orig, OrigFrameLen))

(* A damaged payload byte was caught by the checksum *)
C9_Witness ==
    /\ FirstScan
    /\ cpos > 5
    /\ res.kind = "Failure"
    /\ res.chksum_calc # res.chksum_msg

----------------------------------------------------------------------------
(* The declared length passed the check of main.rs:92 *)
PassedLengthCheck ==
    /\ HasHeader
    /\ TypeByte \in { SYNC, ASYNC }
    /\ Declared >= 2

(* C11: for every frame whose declared length L passed the length check     *)
(* (L >= 2, or the fixed 3 of an ack) the payload count is exactly L - 3,   *)
(* non-negative and computed without 8-bit wraparound (the subtraction      *)
(* neither wraps nor aborts), and the checksum is summed over exactly the   *)
(* L bytes from the type byte through the end of the payload.               *)
C11_PayloadCountExact ==
    PassedLengthCheck =>
        /\ res.length = Declared
        /\ res.kind # "Panic" \/ res.code # "attempt to subtract with overflow"
        /\ payload_len(res.length) = res.length - 3
        /\ res.length - 3 >= 0
        /\ res.kind \in { "Ok", "Failure" } =>
              /\ Len(res.taken) = res.length - 3
              /\ res.chksum_calc = Expected

(* The decoder returned or unwound for a non-ack decode of identifier i *)
Decoded(i) == pc = "decoded" /\ arg_id = i /\ ~arg_ack

(* C12: a Version/Response payload that is valid text with fewer than four  *)
(* space-separated fields, the empty payload included, decodes to the       *)
(* Malformed error value: no packet and no panic.                           *)
C12_FewFieldsIsMalformed ==
    Decoded(VersionPacket_RSP_ID) /\ from_utf8(payload) /\ CountSpaces(payload) < 3 =>
        decoded = PErr

(* The sub-shape resolved for the decoder's arguments carries no field *)
EmptyShape == arg_id \in RegisteredIds /\ (arg_ack \/ arg_id \in EmptyIds)

(* ... or exactly one byte *)
ByteShape == ~arg_ack /\ arg_id \in ByteIds

(* C13: a payload whose length differs from the length of the resolved      *)
(* sub-shape (non-empty for an empty sub-shape or an Ack, 0 or 2 and more   *)
(* bytes for a single-byte sub-shape) decodes to Malformed (Err), never to  *)
(* a packet.                                                                *)
C13_WrongLengthIsMalformed ==
    pc = "decoded" =>
        /\ EmptyShape /\ Len(payload) # 0 => decoded = PErr
        /\ ByteShape /\ Len(payload) # 1 => decoded = PErr

(* The frame main hands to find_msg *)
MSG == << 85, 170, 83, 3, 21, 1, 106 >>

Kinds == { "Inquiry", "Mac", "Version", "SensorCount", "SensorList", "Auth" }

IdTable ==
    [ k \in Kinds |->
        CASE k = "Inquiry" -> << 39, 40 >>
          [] k = "Mac" -> << 4, 5 >>
          [] k = "Version" -> << 22, 23 >>
          [] k = "SensorCount" -> << 46, 47 >>
          [] k = "SensorList" -> << 48, 49 >>
          [] k = "Auth" -> << 20, 21 >> ]

TableIds == UNION { { IdTable[k][1], IdTable[k][2] } : k \in Kinds }

TableKind(i) == CHOOSE k \in Kinds : i \in { IdTable[k][1], IdTable[k][2] }

(* The ack frame of the sensor count command (main.rs:44) *)
SENSOR_COUNT_ACK == << 85, 170, 83, 46, 255, 2, 127 >>

(* C15: for every registered identifier, command or response identifier of *)
(* a kind K, and every payload, PacketPayload::parse with ack = true        *)
(* returns the Ack sub-shape of K; the ack frame 55 AA 53 2E FF 02 7F scans *)
(* to SensorCount/Ack.                                                      *)
C15_AckDecodesToAck ==
    /\ pc = "decoded" /\ arg_ack /\ arg_id \in TableIds =>
          decoded = POk(Pkt(TableKind(arg_id), "Ack", << >>, << >>))
    /\ \A oc \in BOOLEAN :
          /\ find_msg(SENSOR_COUNT_ACK, oc).kind = "Ok"
          /\ find_msg(SENSOR_COUNT_ACK, oc).ack
          /\ find_msg(SENSOR_COUNT_ACK, oc).packet
                = Pkt("SensorCount", "Ack", << >>, << >>)

(* An ack of a response identifier with a non-empty payload was decoded *)
C15_Witness ==
    /\ pc = "decoded"
    /\ arg_ack
    /\ arg_id = SensorCountPacket_RSP_ID
    /\ Len(payload) = 2
    /\ decoded = POk(Pkt("SensorCount", "Ack", << >>, << >>))

(* The identifiers each kind declares (const CMD_ID / RSP_ID of its impl) *)
RSP_ID(k) ==
    CASE k = "Inquiry" -> InquiryPacket_RSP_ID
      [] k = "Mac" -> MacPacket_RSP_ID
      [] k = "Version" -> VersionPacket_RSP_ID
      [] k = "SensorCount" -> SensorCountPacket_RSP_ID
      [] k = "SensorList" -> SensorListPacket_RSP_ID
      [] k = "Auth" -> AuthPacket_RSP_ID

CMD_ID_as_rsp(k) == RSP_ID(k)

CMD_ID(k) ==
    CASE k = "Inquiry" -> InquiryPacket_CMD_ID
      [] k = "Mac" -> MacPacket_CMD_ID
      [] k = "Version" -> VersionPacket_CMD_ID
      [] k = "SensorCount" -> SensorCountPacket_CMD_ID
      [] k = "SensorList" -> SensorListPacket_CMD_ID
      [] k = "Auth" -> AuthPacket_CMD_ID

(* The order in which the kinds are handed to PacketPayloadBuilder *)
PACKET_KINDS == << "Inquiry", "Mac", "Version", "SensorCount", "SensorList", "Auth" >>

(* The match PacketPayloadBuilder generates for a list of kinds: for each   *)
(* kind in turn its CMD_ID arm, then its RSP_ID arm.  The first arm that    *)
(* matches is taken; << >> stands for the wildcard arm.                     *)
RECURSIVE ArmOf(_, _)
ArmOf(kinds, id) ==
    IF kinds = << >> THEN << >>
    ELSE LET x == Head(kinds) IN
         IF id = CMD_ID(x) THEN << x, "Command" >>
         ELSE IF id = RSP_ID(x) THEN << x, "Response" >>
         ELSE ArmOf(Tail(kinds), id)

PacketPayloadBuilder(kinds, input, id, ack) ==
    LET arm == ArmOf(kinds, id) IN
    IF arm = << >> THEN PErr
    ELSE Packet_parse(arm[1], input, AckOr(ack, arm[2]))

(* Every order in which the kinds of a set can be listed *)
RECURSIVE OrdersOf(_)
OrdersOf(S) ==
    IF S = { } THEN { << >> }
    ELSE UNION { { << x >> \o o : o \in OrdersOf(S \ { x }) } : x \in S }

KindOrders == OrdersOf(Kinds)

(* The arm taken for an identifier is the same for every order of the list *)
OrderIndependent ==
    \A o \in KindOrders : \A i \in Byte : ArmOf(o, i) = ArmOf(PACKET_KINDS, i)

(* The (kind, role) pairs whose identifier is i *)
Arms(i) ==
    { a \in Kinds \X { "Command", "Response" } :
        i = (IF a[2] = "Command" THEN CMD_ID(a[1]) ELSE RSP_ID(a[1])) }

(* C16: a non-ack decode of kind K's command identifier is K's Command      *)
(* decoder applied to the payload, of K's response identifier K's Response  *)
(* decoder; each registered identifier belongs to exactly one (kind, role)  *)
(* pair, an unregistered one to none, and the arm taken, hence the result,  *)
(* is the same for every order in which the kinds are listed in the         *)
(* dispatch table.                                                          *)
C16_DispatchByIdentifier ==
    pc = "decoded" /\ ~arg_ack =>
        /\ \A k \in Kinds :
              /\ arg_id = CMD_ID(k) => decoded = Packet_parse(k, payload, "Command")
              /\ arg_id = RSP_ID(k) => decoded = Packet_parse(k, payload, "Response")
        /\ Cardinality(Arms(arg_id)) = (IF arg_id \in RegisteredIds THEN 1 ELSE 0)
        /\ Arms(arg_id) = { } => decoded = PErr
        /\ decoded = PacketPayloadBuilder(PACKET_KINDS, payload, arg_id, arg_ack)
        /\ OrderIndependent

(* A response identifier was decoded with the Response decoder of its kind *)
C16_Witness ==
    /\ pc = "decoded"
    /\ ~arg_ack
    /\ arg_id = SensorListPacket_RSP_ID
    /\ decoded = POk(Pkt("SensorList", "Response", << >>, << payload >>))
    /\ Len(payload) = 2

(* The role the table gives an identifier of kind k *)
TableRole(k, i) == IF i = IdTable[k][1] THEN "Command" ELSE "Response"

(* The byte values for which the generated match has an arm *)
DispatchedIds == { i \in Byte : ArmOf(PACKET_KINDS, i) # << >> }

(* C17: the registered identifiers are exactly Inquiry 0x27/0x28,           *)
(* Mac 0x04/0x05, Version 0x16/0x17, SensorCount 0x2E/0x2F,                 *)
(* SensorList 0x30/0x31, Auth 0x14/0x15: each kind declares the pair of the *)
(* table and the decoder dispatches on exactly these; the twelve are        *)
(* pairwise distinct, none is both a command and a response identifier,     *)
(* and none is the ack sentinel 0xFF.                                       *)
C17_IdentifierTable ==
    /\ \A k \in Kinds : CMD_ID(k) = IdTable[k][1] /\ RSP_ID(k) = IdTable[k][2]
    /\ CMD_IDS = { IdTable[k][1] : k \in Kinds }
    /\ RSP_IDS = { IdTable[k][2] : k \in Kinds }
    /\ Cardinality(RegisteredIds) = 12
    /\ CMD_IDS \cap RSP_IDS = { }
    /\ ACK_SENTINEL \notin RegisteredIds
    /\ DispatchedIds = TableIds
    /\ pc = "decoded" =>
          /\ arg_ack /\ decoded = PErr => arg_id \notin TableIds
          /\ arg_id \notin TableIds => decoded = PErr
          /\ arg_id \in TableIds =>
                decoded = Packet_parse(TableKind(arg_id), payload,
                                       AckOr(arg_ack,
                                             TableRole(TableKind(arg_id), arg_id)))

(* The identifier 0x2F was decoded as the response of SensorCount *)
C17_Witness ==
    /\ pc = "decoded"
    /\ ~arg_ack
    /\ arg_id = 47
    /\ decoded.tag = "Ok"
    /\ decoded.packet.kind = "SensorCount"
    /\ decoded.packet.role = "Response"

(* raw_read handed the received bytes to magic::parse *)
WasRead == pc \in { "returned", "aborted" }

(* The bytes read hold the leader followed by at least a type byte *)
LeaderOffsets(b) == { i \in 1 .. Len(b) - 1 : << b[i], b[i + 1] >> = << 85, 170 >> }

FirstLeader(b) ==
    IF LeaderOffsets(b) = { } THEN 0
    ELSE CHOOSE i \in LeaderOffsets(b) : \A j \in LeaderOffsets(b) : i <= j

ReadTypeByte == scanned[FirstLeader(scanned) + 2]

(* C18: after a marker match a type byte of 0x43 is classified Sync and     *)
(* 0x53 Async; any other type byte makes the reader return an invalid-frame *)
(* error and never a frame classified Sync or Async.  Stated for the reader *)
(* of the hub, magic::parse.                                                *)
C18_OtherTypeIsInvalid ==
    WasRead /\ FirstLeader(scanned) # 0 /\ Len(scanned) >= FirstLeader(scanned) + 2 =>
        /\ res.kind = "Ok" /\ ReadTypeByte = SYNC => res.msg.cmd_type = "Sync"
        /\ res.kind = "Ok" /\ ReadTypeByte = ASYNC => res.msg.cmd_type = "Async"
        /\ ReadTypeByte \notin { SYNC, ASYNC } =>
              /\ res.kind # "Ok"
              /\ res.msg.cmd_type \notin { "Sync", "Async" }
              /\ frames = << >>

(* C19: find_msg locks onto the smallest offset at which 55 AA or AA 55     *)
(* occurs; the bytes before it are skipped and have no influence: the       *)
(* result is the result of scanning the buffer from that offset on, and     *)
(* what it leaves lies behind the marker.  A buffer that holds neither      *)
(* marker yields NoFrame (nom Error), not Invalid.                          *)
C19_LocksOntoFirstMarker ==
    WasScanned =>
        LET m == FirstMark(scanned) IN
        /\ m = 0 =>
              /\ res.kind = "Error"
              /\ res.mark = 0
              /\ res.packet = NoPacket
        /\ m # 0 =>
              /\ res.mark = m
              /\ res.kind # "Error" \/ res.code = "Eof"
              /\ \E oc \in BOOLEAN :
                    res = [find_msg(Drop(scanned, m - 1), oc) EXCEPT !.mark = m]
              /\ Len(res.remaining) <= Len(scanned) - (m + 1)
              /\ res.remaining = Drop(scanned, Len(scanned) - Len(res.remaining))

(* Two stray bytes, the second a marker byte, in front of a host frame:     *)
(* the scan locked onto offset 3 and decoded the frame.                     *)
C19_Witness ==
    /\ WasScanned
    /\ Len(scanned) = Len(orig)
    /\ FirstMark(scanned) = 3
    /\ scanned[2] = 170
    /\ res.mark = 3
    /\ res.kind = "Ok"

(* The identifier byte and the payload of each frame of a chunk of valid    *)
(* frames, in wire order.                                                   *)
RECURSIVE WireMessages(_)
WireMessages(b) ==
    IF Len(b) < 5 THEN << >>
    ELSE LET declared == IF b[5] = ACK_SENTINEL THEN 3 ELSE b[4] IN
         << [cmd_id |-> b[5], payload |-> SubSeq(b, 6, 2 + declared)] >>
            \o WireMessages(Drop(b, 4 + declared))

Logged == [ i \in 1 .. Len(frames) |-> [cmd_id |-> frames[i].cmd_id, payload |-> frames[i].payload] ]

(* C20: when the received chunk holds n complete valid frames, n >= 0, the  *)
(* receive path goes on parsing the remainder until no frame is left: it    *)
(* returns, and by then all n frames have been decoded, in wire order.      *)
C20_AllFramesDecoded ==
    orig \in FrameChunks =>
        /\ pc # "aborted"
        /\ pc = "returned" =>
              /\ Len(frames) = CountFrames(orig)
              /\ Logged = WireMessages(orig)

(* C21: for every chunk a successful transfer delivers (no marker, a        *)
(* truncated frame, a non-ack length byte below 3 included) the receive     *)
(* path returns, having produced no frame when the chunk holds none; no     *)
(* received byte sequence aborts the process.                               *)
C21_ReceiveNeverAborts ==
    WasRead =>
        /\ pc # "aborted"
        /\ res.kind # "Ok" => pc = "returned" /\ frames = << >>

(* The buffer the hub wrote was scanned from its first byte *)
SentAndScanned ==
    /\ Len(written) = 1
    /\ WasScanned
    /\ scanned = written[1]

(* The kind whose Command sub-shape a command packet of the hub is *)
CommandKind(name) ==
    CASE name = "Inquiry" -> "Inquiry"
      [] name = "GetMac" -> "Mac"
      [] name = "GetVer" -> "Version"
      [] name = "GetSensorCount" -> "SensorCount"
      [] name = "GetSensorList" -> "SensorList"
      [] name = "Auth" -> "Auth"

(* C22: for every command packet the hub sends (Inquiry, GetMac, GetVer,    *)
(* GetSensorCount, GetSensorList(c), Auth(completion)) the bytes written    *)
(* are AA 55, the type byte (0x43 Sync, 0x53 Async), a length byte equal to *)
(* the payload length + 3, the command identifier, the payload and the      *)
(* big-endian checksum of the scanner's rule (0x00FF + the sum of           *)
(* type..payload); find_msg consumes them all and decodes the Command       *)
(* sub-shape of the same kind with the same field value.                    *)
C22_SentCommandsScan ==
    SentAndScanned /\ val.name # "Ack" =>
        LET w == written[1]
            n == Len(val.field)
        IN
        /\ Len(w) = 7 + n
        /\ Take(w, 2) = << 170, 85 >>
        /\ w[3] = (IF val.packet_type = "Sync" THEN 67 ELSE 83)
        /\ w[4] = n + 3
        /\ w[5] = val.packet_id
        /\ SubSeq(w, 6, 5 + n) = val.field
        /\ w[6 + n] * U8 + w[7 + n] = (255 + SumBytes(w, 3, 5 + n)) % U16
        /\ res.kind = "Ok"
        /\ res.remaining = << >>
        /\ res.sync_type = val.packet_type
        /\ ~res.ack
        /\ res.packet = Pkt(CommandKind(val.name), "Command", val.field, << >>)

(* GetSensorList(5), as init sends it, was written and decoded by the peer *)
C22_Witness ==
    /\ SentAndScanned
    /\ val = GetSensorListPacket(5)
    /\ written[1] = << 170, 85, 83, 4, 48, 5, 1, 139 >>
    /\ res.kind = "Ok"
    /\ res.packet = Pkt("SensorList", "Command", << 5 >>, << >>)

(* C30: for every acknowledged identifier x, the bytes the hub writes for   *)
(* AckPacket{for_packet_id: x} are an ack frame of the wire format (field A *)
(* = x, field B = 0xFF, no payload), which the scanner resolves as an ack   *)
(* with command identifier x and effective length 3.                        *)
C30_SentAckIsAckFrame ==
    SentAndScanned /\ val.name = "Ack" =>
        LET w == written[1]
            x == val.field[1]
        IN
        /\ Len(w) = 7
        /\ w[4] = x
        /\ w[5] = ACK_SENTINEL
        /\ res.kind = "Ok"
        /\ res.ack
        /\ res.id = x
        /\ res.length = 3

(* A valid text of exactly four space-free fields joined by single spaces *)
FourFields(text) == from_utf8(text) /\ CountSpaces(text) = 3

(* C23: for every Version/Response payload that is the text of exactly     *)
(* four space-free fields joined by single spaces, VersionPacket::parse     *)
(* returns Response with fw_version, hw_version, hw_type and magic equal to *)
(* the first, second, third and fourth field in that order.                 *)
C23_VersionFieldsInOrder ==
    Decoded(VersionPacket_RSP_ID) /\ FourFields(payload) =>
        /\ decoded.tag = "Ok"
        /\ decoded.packet.kind = "Version"
        /\ decoded.packet.role = "Response"
        /\ decoded.packet.num = << >>
        /\ LET f == decoded.packet.strs IN
           /\ Len(f) = 4
           /\ \A i \in 1 .. 4 : CountSpaces(f[i]) = 0
           /\ payload = f[1] \o << SPACE >> \o f[2] \o << SPACE >> \o f[3]
                            \o << SPACE >> \o f[4]

(* "0.0.0.30 V1.4 Dongle UD3U" was decoded *)
C23_Witness ==
    /\ Decoded(VersionPacket_RSP_ID)
    /\ payload = VERSION_TEXT
    /\ decoded = POk(Pkt("Version", "Response", << >>,
                         << << 48, 46, 48, 46, 48, 46, 51, 48 >>,
                            << 86, 49, 46, 52 >>,
                            << 68, 111, 110, 103, 108, 101 >>,
                            << 85, 68, 51, 85 >> >>))

(* The number of find_msg calls so far that returned a frame or a rejected  *)
(* header, each followed by a call on the reported remainder                *)
Resumed == IF res.kind \in { "Ok", "Failure" } THEN calls ELSE calls - 1

ValidFrameAt(b, k) ==
    LET r == find_msg(Drop(b, k - 1), FALSE) IN r.kind = "Ok" /\ r.mark = 1

(* The offset in the scanned buffer at which the reported remainder starts *)
RemainderOffset == Len(scanned) - Len(res.remaining) + 1

(* C25: rejecting a bad header never swallows a later good frame: whenever  *)
(* find_msg returns Invalid after locking onto a marker at offset j and the *)
(* buffer holds a complete valid frame starting at an offset k > j, the     *)
(* reported remainder starts at an offset <= k.                             *)
C25_RejectionKeepsLaterFrame ==
    WasScanned /\ res.kind = "Failure" =>
        \A k \in res.mark + 1 .. Len(scanned) :
            ValidFrameAt(scanned, k) => RemainderOffset <= k

(* C26: for every valid frame F and every noise prefix N that holds neither *)
(* two-byte marker, scanning N ++ F decodes F with nothing remaining, also  *)
(* when the last byte of N is 0x55 or 0xAA and forms the other marker with  *)
(* the first byte of F.                                                     *)
C26_NoisePrefixIsSkipped ==
    WasScanned /\ calls = 1 =>
        \A n \in 0 .. Len(scanned) :
            LET F == find_msg(Drop(scanned, n), FALSE) IN
            /\ MarkOffsets(Take(scanned, n)) = { }
            /\ F.kind = "Ok"
            /\ F.mark = 1
            /\ F.remaining = << >>
            => /\ res.kind = "Ok"
               /\ res.remaining = << >>
               /\ res.packet = F.packet

(* The first marker of the bytes read is the bridge's 55 AA *)
FirstMarkIsLeader(b) == FirstMark(b) # 0 /\ FirstMark(b) = FirstLeader(b)

(* C27: the two scanners agree on bridge-to-host traffic: for every buffer  *)
(* whose first marker is 55 AA and which find_msg accepts, magic::parse     *)
(* returns the same command identifier, the same payload bytes and the same *)
(* remainder; for an ack frame the command identifier is the acknowledged   *)
(* identifier carried in field A.                                           *)
C27_ScannersAgree ==
    WasRead /\ FirstMarkIsLeader(scanned) =>
        LET accepted == find_msg(scanned, FALSE) IN
        accepted.kind = "Ok" =>
            /\ res.kind = "Ok"
            /\ res.msg.cmd_id = accepted.id
            /\ res.msg.payload = accepted.taken
            /\ res.remaining = accepted.remaining

(* The commands of the start-up sequence and the number of successful      *)
(* reads that precede each of them                                          *)
InitCommands ==
    << InquiryPacket, GetMacPacket, GetVerPacket, GetSensorCountPacket,
       GetSensorListPacket(5), AuthPacket(255) >>

ReadsBefore == << 0, 1, 2, 3, 4, 7 >>

(* C28: in every execution of WyzeHub::init the commands are transmitted in *)
(* the order Inquiry, GetMac, GetVer, GetSensorCount, GetSensorList(5),     *)
(* Auth(done), each at most once and all of them once the final loop is     *)
(* reached; the n-th command goes out when exactly ReadsBefore[n] transfers *)
(* have succeeded, i.e. after at least one success since the previous       *)
(* command and Auth(done) after seven (1, 1, 1, 1, 3).                      *)
C28_InitOrder ==
    LET n == Len(written) IN
    /\ n <= Len(InitCommands)
    /\ \A i \in 1 .. n : written[i] = WyzeHub_send(InitCommands[i])
    /\ n = 0 => reads = 0
    /\ n >= 1 => reads >= ReadsBefore[n]
    /\ n >= 1 /\ n < Len(InitCommands) => reads <= ReadsBefore[n + 1]
    /\ step = FinalLoop => n = Len(InitCommands)
    /\ reads >= 7 => n = Len(InitCommands) \/ step = FinalLoop - 1

(* Auth(done) went out as the sixth command after seven successful reads *)
C28_Witness ==
    /\ pc = "init"
    /\ step = FinalLoop
    /\ reads = 7
    /\ Len(written) = 6
    /\ written[6] = << 170, 85, 83, 4, 20, 255, 2, 105 >>

(* One step of init seen from inside raw_read: it returns only after a      *)
(* transfer with status Success whose bytes parsed, a transfer that did not *)
(* succeed is resubmitted and raw_read keeps waiting, and nothing is sent   *)
(* and no statement is passed while no transfer has succeeded.              *)
RawReadStep ==
    pc = "reading" =>
        /\ pc' \in { "reading", "init", "aborted" }
        /\ pc' = "init" => reads' = reads + 1 /\ res'.kind = "Ok"
        /\ delivered' # delivered =>
               pc' = "reading" /\ UNCHANGED << written, step, reads >>
        /\ reads' = reads => written' = written /\ step' = step

(* init has sent Auth(done) and is in its final read loop *)
InFinalLoop ==
    /\ step = FinalLoop
    /\ Len(written) = Len(InitCommands)
    /\ written[Len(InitCommands)] = WyzeHub_send(AuthPacket_create_done)

(* C29: raw_read never returns an error: it resubmits a transfer that did   *)
(* not succeed and keeps waiting, and returns Ok only after a Success;      *)
(* init sends nothing more while no transfer succeeds, and when every       *)
(* submitted transfer eventually succeeds with bytes raw_read can parse     *)
(* (no abort), init eventually sends Auth(done) and reaches its final loop. *)
C29_RawReadWaitsAndInitCompletes ==
    /\ [][RawReadStep]_vars
    /\ [](pc # "aborted") => <>InFinalLoop

(* A read of the final loop returned after its transfer was resubmitted *)
C29_Witness ==
    /\ InFinalLoop
    /\ pc = "init"
    /\ delivered >= 1
    /\ reads = 8

====
